---- MODULE Spec2Model ----
(***************************************************************************)
(* Model of the /webhook handler of src/app.py (a Flask application that   *)
(* receives TradingView alerts and stores them in PostgreSQL table         *)
(* trading_signals).                                                       *)
(*                                                                         *)
(* Text is modelled by TLA+ strings, read character by character with      *)
(* SubSeq/Len.  Python values (the result of json.loads, request.form.get, *)
(* float, str) are tagged records [t |-> tag, v |-> payload]:              *)
(*    "null"  None                 "bool"  True/False                      *)
(*    "int"   an integer           "float" a float, in units of 1/FScale   *)
(*    "str"   a string             "arr"   a list (a sequence of values)   *)
(*    "obj"   a dict (a function from key strings to values)               *)
(***************************************************************************)
EXTENDS FiniteSets, Integers, Sequences, TLC

(***************************************************************************)
(* Python values                                                           *)
(***************************************************************************)
PyNone == [t |-> "null", v |-> ""]
PyBool(b) == [t |-> "bool", v |-> b]
PyInt(n) == [t |-> "int", v |-> n]
PyFloat(n) == [t |-> "float", v |-> n]
PyStr(s) == [t |-> "str", v |-> s]
PyList(q) == [t |-> "arr", v |-> q]
PyDict(f) == [t |-> "obj", v |-> f]
EmptyDict == PyDict(<<>>)

\* A float x is held as the integer x * FScale (two decimal places).
FScale == 100

\* F applied to the value of x: x is evaluated once, however often F uses it
Let(x, F(_)) == CHOOSE y \in {F(v) : v \in {x}} : TRUE

(***************************************************************************)
(* Characters and strings                                                  *)
(***************************************************************************)
Ch(s, i) == IF i >= 1 /\ i <= Len(s) THEN SubSeq(s, i, i) ELSE ""

\* s[a-1:b] in Python's terms: the characters a..b of s that exist
Sub(s, a, b) ==
    IF a > b \/ a > Len(s) THEN ""
    ELSE SubSeq(s, IF a < 1 THEN 1 ELSE a, IF b > Len(s) THEN Len(s) ELSE b)

Digits == "0123456789"
LowerChars == "abcdefghijklmnopqrstuvwxyz"
UpperChars == "ABCDEFGHIJKLMNOPQRSTUVWXYZ"

\* re's \s and str.strip()'s whitespace (the ASCII part that the inputs use)
IsSpace(c) == c \in {" ", "\n", "\t", "\r"}
IsDigit(c) == c \in {"0", "1", "2", "3", "4", "5", "6", "7", "8", "9"}

DigitVal(c) == CHOOSE d \in 0..9 : Ch(Digits, d + 1) = c

\* str.upper() of one character
UpperCh(c) ==
    IF \E i \in 1..26 : Ch(LowerChars, i) = c
    THEN LET i == CHOOSE k \in 1..26 : Ch(LowerChars, k) = c IN Ch(UpperChars, i)
    ELSE c

\* s[i-1:].upper()
RECURSIVE UpperFrom(_, _)
UpperFrom(s, i) == IF i > Len(s) THEN "" ELSE UpperCh(Ch(s, i)) \o UpperFrom(s, i + 1)

\* s.upper()
Upper(s) == UpperFrom(s, 1)

\* s[i-1:].replace(c, '') for a one-character c
RECURSIVE RemoveFrom(_, _, _)
RemoveFrom(s, c, i) ==
    IF i > Len(s) THEN ""
    ELSE (IF Ch(s, i) = c THEN "" ELSE Ch(s, i)) \o RemoveFrom(s, c, i + 1)

\* s.replace(c, '')
RemoveCh(s, c) == RemoveFrom(s, c, 1)

\* the first index >= i of s that is not whitespace (Len(s) + 1 at the end)
RECURSIVE SkipWs(_, _)
SkipWs(s, i) == IF IsSpace(Ch(s, i)) THEN SkipWs(s, i + 1) ELSE i

\* the last index <= i of s that is not whitespace (0 when there is none)
RECURSIVE SkipWsBack(_, _)
SkipWsBack(s, i) == IF IsSpace(Ch(s, i)) THEN SkipWsBack(s, i - 1) ELSE i

\* s.strip()
Strip(s) == Sub(s, SkipWs(s, 1), SkipWsBack(s, Len(s)))

\* the first index j >= i at which pat occurs in s, or 0
RECURSIVE Find(_, _, _)
Find(s, pat, i) ==
    IF i + Len(pat) - 1 > Len(s) THEN 0
    ELSE IF Sub(s, i, i + Len(pat) - 1) = pat THEN i
    ELSE Find(s, pat, i + 1)

\* x in s, for strings
Contains(s, pat) == Find(s, pat, 1) # 0

\* the last index at which character c occurs in s, or 0
RECURSIVE FindLast(_, _, _)
FindLast(s, c, i) ==
    IF i < 1 THEN 0 ELSE IF Ch(s, i) = c THEN i ELSE FindLast(s, c, i - 1)

\* the first index >= i holding no digit
RECURSIVE SkipDigits(_, _)
SkipDigits(s, i) == IF IsDigit(Ch(s, i)) THEN SkipDigits(s, i + 1) ELSE i

\* the value of the digits s[0:n] (0 for n = 0)
RECURSIVE DigitsUpTo(_, _)
DigitsUpTo(s, n) == IF n < 1 THEN 0 ELSE 10 * DigitsUpTo(s, n - 1) + DigitVal(Ch(s, n))

\* the value of a string of digits ("" is 0)
DigitsVal(s) == DigitsUpTo(s, Len(s))

RECURSIVE Pow10(_)
Pow10(n) == IF n = 0 THEN 1 ELSE 10 * Pow10(n - 1)

\* str(n) for a natural number n
RECURSIVE NatStr(_)
NatStr(n) == IF n < 10 THEN Ch(Digits, n + 1) ELSE NatStr(n \div 10) \o Ch(Digits, (n % 10) + 1)

\* The float ip.fp (digit strings) in units of 1/FScale.  The model holds two
\* decimal places: a fraction with more non-zero places has no value here (the CASE
\* has no other arm), and the inputs of the model use none.
FracVal(fp) ==
    CASE Len(fp) = 0 -> 0
      [] Len(fp) = 1 -> 10 * DigitsVal(fp)
      [] Len(fp) >= 2 /\ DigitsVal(Sub(fp, 3, Len(fp))) = 0 -> DigitsVal(Sub(fp, 1, 2))

FloatVal(ip, fp) == DigitsVal(ip) * FScale + FracVal(fp)

\* the number s[a-1:b-1].s[b:c-1] read as a float or, without a fraction, as an
\* integer
NumberAt(s, a, b, c, neg, frac) ==
    LET sign == IF neg THEN -1 ELSE 1 IN
    IF frac THEN PyFloat(sign * FloatVal(Sub(s, a, b - 1), Sub(s, b + 1, c - 1)))
    ELSE PyInt(sign * DigitsVal(Sub(s, a, b - 1)))

(***************************************************************************)
(* json.loads: objects, arrays, strings with the escapes \" \\ \/ \n \t,   *)
(* numbers without exponent, true, false, null, whitespace.                *)
(* A parse result is [ok, val, pos]: pos is the index after the value.     *)
(***************************************************************************)
ParseFail(i) == [ok |-> FALSE, val |-> PyNone, pos |-> i]
ParseOk(v, i) == [ok |-> TRUE, val |-> v, pos |-> i]

\* the body of a string, from index i (after the opening quote), read into acc
RECURSIVE ScanString(_, _, _)
ScanString(s, i, acc) ==
    LET c == Ch(s, i) IN
    IF c = "" \/ c = "\n" \/ c = "\t" \/ c = "\r" THEN ParseFail(i)
    ELSE IF c = "\"" THEN ParseOk(PyStr(acc), i + 1)
    ELSE IF c = "\\" THEN
        LET e == Ch(s, i + 1) IN
        IF e \in {"\"", "\\", "/"} THEN ScanString(s, i + 2, acc \o e)
        ELSE IF e = "n" THEN ScanString(s, i + 2, acc \o "\n")
        ELSE IF e = "t" THEN ScanString(s, i + 2, acc \o "\t")
        ELSE ParseFail(i)
    ELSE ScanString(s, i + 1, acc \o c)

\* a number at index i: -? (0 | [1-9][0-9]*) (. [0-9]+)?
ScanNumber(s, i) ==
    LET neg == Ch(s, i) = "-"
        a == IF neg THEN i + 1 ELSE i
    IN  Let(IF Ch(s, a) = "0" THEN a + 1 ELSE SkipDigits(s, a), LAMBDA b :
        IF b = a THEN ParseFail(i)
        ELSE IF Ch(s, b) = "." /\ IsDigit(Ch(s, b + 1))
        THEN Let(SkipDigits(s, b + 1), LAMBDA c :
                 ParseOk(NumberAt(s, a, b, c, neg, TRUE), c))
        ELSE ParseOk(NumberAt(s, a, b, b, neg, FALSE), b))

RECURSIVE ScanValue(_, _), ScanMembers(_, _, _), ScanElements(_, _, _)

\* a JSON value at index i (no leading whitespace)
ScanValue(s, i) ==
    LET c == Ch(s, i) IN
    IF c = "\"" THEN ScanString(s, i + 1, "")
    ELSE IF c = "{" THEN
        Let(SkipWs(s, i + 1), LAMBDA j :
            IF Ch(s, j) = "}" THEN ParseOk(EmptyDict, j + 1)
            ELSE ScanMembers(s, j, <<>>))
    ELSE IF c = "[" THEN
        Let(SkipWs(s, i + 1), LAMBDA j :
            IF Ch(s, j) = "]" THEN ParseOk(PyList(<<>>), j + 1)
            ELSE ScanElements(s, j, <<>>))
    ELSE IF Sub(s, i, i + 3) = "null" THEN ParseOk(PyNone, i + 4)
    ELSE IF Sub(s, i, i + 3) = "true" THEN ParseOk(PyBool(TRUE), i + 4)
    ELSE IF Sub(s, i, i + 4) = "false" THEN ParseOk(PyBool(FALSE), i + 5)
    ELSE ScanNumber(s, i)

\* the members of an object from index i (at a key), added to acc; a repeated
\* key keeps its last value, as a dict does
ScanMembers(s, i, acc) ==
    IF Ch(s, i) # "\"" THEN ParseFail(i)
    ELSE Let(ScanString(s, i + 1, ""), LAMBDA k :
         Let(SkipWs(s, k.pos), LAMBDA j :
         IF ~k.ok \/ Ch(s, j) # ":" THEN ParseFail(i)
         ELSE Let(SkipWs(s, j + 1), LAMBDA b :
              Let(ScanValue(s, b), LAMBDA e :
              Let(SkipWs(s, e.pos), LAMBDA n :
              Let([x \in (DOMAIN acc) \cup {k.val.v} |->
                      IF x = k.val.v THEN e.val ELSE acc[x]], LAMBDA more :
              IF ~e.ok THEN ParseFail(i)
              ELSE IF Ch(s, n) = "}" THEN ParseOk(PyDict(more), n + 1)
              ELSE IF Ch(s, n) = ","
                   THEN Let(SkipWs(s, n + 1), LAMBDA m : ScanMembers(s, m, more))
              ELSE ParseFail(i)))))))

\* the elements of an array from index i, appended to acc
ScanElements(s, i, acc) ==
    Let(ScanValue(s, i), LAMBDA e :
    Let(SkipWs(s, e.pos), LAMBDA n :
    Let(Append(acc, e.val), LAMBDA more :
    IF ~e.ok THEN ParseFail(i)
    ELSE IF Ch(s, n) = "]" THEN ParseOk(PyList(more), n + 1)
    ELSE IF Ch(s, n) = ","
         THEN Let(SkipWs(s, n + 1), LAMBDA m : ScanElements(s, m, more))
    ELSE ParseFail(i))))

\* json.loads(s): [ok |-> FALSE] stands for the exception it raises
JsonLoads(s) ==
    Let(ScanValue(s, SkipWs(s, 1)), LAMBDA r :
        IF r.ok /\ SkipWs(s, r.pos) = Len(s) + 1
        THEN [ok |-> TRUE, val |-> r.val]
        ELSE [ok |-> FALSE, val |-> PyNone])

(***************************************************************************)
(* Python's operations on values                                           *)
(***************************************************************************)
\* bool(v), as "if not data" takes it
Truthy(v) ==
    CASE v.t = "null" -> FALSE
      [] v.t = "bool" -> v.v
      [] v.t \in {"int", "float"} -> v.v # 0
      [] v.t = "str" -> v.v # ""
      [] v.t = "arr" -> Len(v.v) > 0
      [] v.t = "obj" -> DOMAIN v.v # {}

\* k in v: "yes", "no", or "raise" (TypeError: v is not iterable)
KeyIn(k, v) ==
    CASE v.t = "obj" -> IF k \in DOMAIN v.v THEN "yes" ELSE "no"
      [] v.t = "arr" -> IF \E i \in DOMAIN v.v : v.v[i] = PyStr(k) THEN "yes" ELSE "no"
      [] v.t = "str" -> IF Contains(v.v, k) THEN "yes" ELSE "no"
      [] OTHER -> "raise"

\* v.get(k, d) for a dict v
DictGet(v, k, d) == IF k \in DOMAIN v.v THEN v.v[k] ELSE d

\* str(v) for the scalars; (the str of a list or dict is not modelled, and no
\* input of the model has one as symbol or signal)
PyStrOf(v) ==
    CASE v.t = "str" -> v.v
      [] v.t = "null" -> "None"
      [] v.t = "bool" -> IF v.v THEN "True" ELSE "False"
      [] v.t = "int" -> IF v.v < 0 THEN "-" \o NatStr(-v.v) ELSE NatStr(v.v)
      [] v.t = "float" ->
            LET a == IF v.v < 0 THEN -v.v ELSE v.v
                f == a % FScale
            IN  (IF v.v < 0 THEN "-" ELSE "") \o NatStr(a \div FScale) \o "."
                \o (IF f % 10 = 0 THEN NatStr(f \div 10)
                    ELSE NatStr(f \div 10) \o NatStr(f % 10))

\* float(s) for a string s: optional whitespace around, an optional sign, then
\* digits with at most one point and at least one digit.  (Exponents,
\* underscores, "inf" and "nan" are not modelled; the inputs use none.)
FloatOfStr(s) ==
    Let(Strip(s), LAMBDA u :
    Let(IF Ch(u, 1) \in {"-", "+"} THEN 2 ELSE 1, LAMBDA a :
    Let(SkipDigits(u, a), LAMBDA b :
    Let(IF Ch(u, b) = "." THEN SkipDigits(u, b + 1) ELSE b, LAMBDA c :
    IF c = Len(u) + 1 /\ Len(Sub(u, a, b - 1)) + Len(Sub(u, b + 1, c - 1)) > 0
    THEN [ok |-> TRUE,
          val |-> (IF Ch(u, 1) = "-" THEN -1 ELSE 1)
                    * FloatVal(Sub(u, a, b - 1), Sub(u, b + 1, c - 1))]
    ELSE [ok |-> FALSE, val |-> 0]))))

\* float(v): [ok |-> FALSE] stands for the ValueError or TypeError it raises
FloatOf(v) ==
    CASE v.t = "str" -> FloatOfStr(v.v)
      [] v.t = "int" -> [ok |-> TRUE, val |-> v.v * FScale]
      [] v.t = "float" -> [ok |-> TRUE, val |-> v.v]
      [] v.t = "bool" -> [ok |-> TRUE, val |-> IF v.v THEN FScale ELSE 0]
      [] OTHER -> [ok |-> FALSE, val |-> 0]

(***************************************************************************)
(* The regular expressions of the raw-text strategy.  A search result is   *)
(* [found, group].                                                         *)
(***************************************************************************)
NoMatch == [found |-> FALSE, group |-> ""]
Match(g) == [found |-> TRUE, group |-> g]

\* the first index >= i of s holding a character of set stop (or the end)
RECURSIVE RunEnd(_, _, _)
RunEnd(s, i, stop) ==
    IF i > Len(s) \/ Ch(s, i) \in stop THEN i ELSE RunEnd(s, i + 1, stop)

\* the first index >= i holding neither a digit nor a point
RECURSIVE SkipNum(_, _)
SkipNum(s, i) == IF IsDigit(Ch(s, i)) \/ Ch(s, i) = "." THEN SkipNum(s, i + 1) ELSE i

\* re.search(r'\{.*\}', s, re.DOTALL): from the first "{" to the last "}"
BraceSearch(s) ==
    Let(Find(s, "{", 1), LAMBDA a :
    Let(FindLast(s, "}", Len(s)), LAMBDA b :
    IF a # 0 /\ b > a THEN Match(Sub(s, a, b)) ELSE NoMatch))

\* re.search(r'"<key>":\s*"([^"]+)"', s), tried from index i on
RECURSIVE QuotedSearch(_, _, _)
QuotedSearch(s, key, i) ==
    Let("\"" \o key \o "\":", LAMBDA pat :
    Let(Find(s, pat, i), LAMBDA j :
    Let(SkipWs(s, j + Len(pat)), LAMBDA k :
    Let(RunEnd(s, k + 1, {"\""}), LAMBDA e :
    IF j = 0 THEN NoMatch
    ELSE IF Ch(s, k) = "\"" /\ e > k + 1 /\ e <= Len(s) THEN Match(Sub(s, k + 1, e - 1))
    ELSE QuotedSearch(s, key, j + 1)))))

\* re.search(r'<key>=([^&\s]+)', s), tried from index i on
RECURSIVE KvSearch(_, _, _)
KvSearch(s, key, i) ==
    Let(key \o "=", LAMBDA pat :
    Let(Find(s, pat, i), LAMBDA j :
    Let(j + Len(pat), LAMBDA k :
    Let(RunEnd(s, k, {"&", " ", "\n", "\t", "\r"}), LAMBDA e :
    IF j = 0 THEN NoMatch
    ELSE IF e > k THEN Match(Sub(s, k, e - 1))
    ELSE KvSearch(s, key, j + 1)))))

\* re.search(r'"price":\s*([\d.]+)', s), tried from index i on
RECURSIVE QuotedNumSearch(_, _)
QuotedNumSearch(s, i) ==
    Let(Find(s, "\"price\":", i), LAMBDA j :
    Let(SkipWs(s, j + Len("\"price\":")), LAMBDA k :
    Let(SkipNum(s, k), LAMBDA e :
    IF j = 0 THEN NoMatch
    ELSE IF e > k THEN Match(Sub(s, k, e - 1))
    ELSE QuotedNumSearch(s, j + 1))))

\* re.search(r'price=([\d.]+)', s), tried from index i on
RECURSIVE KvNumSearch(_, _)
KvNumSearch(s, i) ==
    Let(Find(s, "price=", i), LAMBDA j :
    Let(j + Len("price="), LAMBDA k :
    Let(SkipNum(s, k), LAMBDA e :
    IF j = 0 THEN NoMatch
    ELSE IF e > k THEN Match(Sub(s, k, e - 1))
    ELSE KvNumSearch(s, j + 1))))

(***************************************************************************)
(* Requests.  A request is [ctype, body, form]:                            *)
(*   ctype "json"  request.is_json holds (the declared type is JSON)       *)
(*   ctype "form"  a form-encoded request; form holds its parsed fields    *)
(*                 and the body is already consumed                        *)
(*   ctype "raw"   anything else; body is request.get_data(as_text=True)   *)
(***************************************************************************)
NoForm == <<>>
JsonReq(body) == [ctype |-> "json", body |-> body, form |-> NoForm]
FormReq(form) == [ctype |-> "form", body |-> "", form |-> form]
RawReq(body) == [ctype |-> "raw", body |-> body, form |-> NoForm]

(***************************************************************************)
(* Payload extraction (webhook, the branches on the request's format).     *)
(* An extraction result is [exc, data, src]: exc names the exception that  *)
(* left the branch ("none" when it completed), data is the handler's       *)
(* variable data at that point, src the strategy that assigned it.         *)
(***************************************************************************)
Extracted(d, s) == [exc |-> "none", data |-> d, src |-> s]

\* Format 1: request.get_json(), which raises BadRequest when the body does
\* not parse
JsonStrategy(r) ==
    Let(JsonLoads(r.body), LAMBDA j :
        IF j.ok THEN Extracted(j.val, "json")
        ELSE [exc |-> "bad_request", data |-> PyNone, src |-> "none"])

FormFields == {"symbol", "signal", "price", "strength", "timeframe"}

\* request.form.get(k) or request.form.get(k, default)
FormGet(form, k) ==
    IF k \in DOMAIN form THEN PyStr(form[k])
    ELSE IF k = "strength" THEN PyFloat(850)
    ELSE IF k = "timeframe" THEN PyStr("5m")
    ELSE PyNone

\* Format 2: the dict built from the known form fields
FormStrategy(r) == Extracted(PyDict([k \in FormFields |-> FormGet(r.form, k)]), "form")

\* Format 3, first part: json.loads of the whole text
WholeStrategy(text) ==
    Let(JsonLoads(text), LAMBDA j :
        IF j.ok THEN Extracted(j.val, "whole") ELSE Extracted(PyNone, "none"))

\* Format 3, second part (in the except of the first): the brace-delimited
\* substring, parsed as JSON
BraceStrategy(text) ==
    Let(BraceSearch(text), LAMBDA m :
    Let(JsonLoads(m.group), LAMBDA j :
    IF m.found /\ j.ok THEN Extracted(j.val, "brace") ELSE Extracted(PyNone, "none")))

\* re.search(first) or re.search(second): a if it matched, else b
OrElse(a, b) == Let(a, LAMBDA m : IF m.found THEN m ELSE b)

\* Format 3, third part: the key fields found by regular expressions.  float()
\* of a price group such as "1.2.3" raises ValueError; data then holds what was
\* assigned before.
RegexStrategy(text) ==
    Let(OrElse(QuotedSearch(text, "symbol", 1), KvSearch(text, "symbol", 1)), LAMBDA sm :
    Let(OrElse(QuotedSearch(text, "signal", 1), KvSearch(text, "signal", 1)), LAMBDA gm :
    Let(OrElse(QuotedNumSearch(text, 1), KvNumSearch(text, 1)), LAMBDA pm :
    Let(FloatOfStr(pm.group), LAMBDA pf :
    Let((IF sm.found THEN {"symbol"} ELSE {})
            \cup (IF gm.found THEN {"signal"} ELSE {})
            \cup (IF pm.found /\ pf.ok THEN {"price"} ELSE {}), LAMBDA keys :
    [exc |-> IF pm.found /\ ~pf.ok THEN "value_error" ELSE "none",
     data |-> PyDict([k \in keys |->
                        IF k = "symbol" THEN PyStr(sm.group)
                        ELSE IF k = "signal" THEN PyStr(gm.group)
                        ELSE PyFloat(pf.val)]),
     src |-> IF keys = {} THEN "none" ELSE "regex"])))))

\* RawStrategy with the regular-expression fields laid over the JSON result
\* instead of used only when there is none
RawStrategyMerged(text) ==
    Let(WholeStrategy(text), LAMBDA w :
    Let(IF w.src = "whole" THEN w ELSE BraceStrategy(text), LAMBDA j :
    Let(RegexStrategy(text), LAMBDA g :
    IF Truthy(j.data) /\ j.data.t = "obj"
    THEN [j EXCEPT !.data = PyDict(g.data.v @@ j.data.v)]
    ELSE IF Truthy(j.data) THEN j ELSE g)))

\* Format 3: the else branch as a whole
RawStrategy(text) ==
    Let(WholeStrategy(text), LAMBDA w :
    Let(IF w.src = "whole" THEN w ELSE BraceStrategy(text), LAMBDA j :
    IF Truthy(j.data) THEN j ELSE RegexStrategy(text)))

\* the if / elif / else on the request's format
Extract(r) ==
    IF r.ctype = "json" THEN JsonStrategy(r)
    ELSE IF r.ctype = "form" /\ DOMAIN r.form # {} THEN FormStrategy(r)
    ELSE RawStrategy(r.body)

(***************************************************************************)
(* Validation and normalisation (webhook, after the extraction)            *)
(***************************************************************************)
Required == <<"symbol", "signal", "price">>

\* the required fields that are not in data, in the order of the list missing
Missing(data) == SelectSeq(Required, LAMBDA k : KeyIn(k, data) = "no")

\* str(v).upper().replace('"', '').strip()
Normalize(v) ==
    Let(PyStrOf(v), LAMBDA s :
    Let(Upper(s), LAMBDA u :
    Let(RemoveCh(u, "\""), LAMBDA q : Strip(q))))

NoRec == [none |-> TRUE]

\* signal_data, without the timestamp
SignalData(data, price, strength) ==
    [symbol |-> Normalize(data.v["symbol"]),
     signal |-> Normalize(data.v["signal"]),
     price |-> price,
     strength |-> strength,
     timeframe |-> DictGet(data, "timeframe", PyStr("5m")),
     raw_data |-> data]

\* What the handler does with the extracted data before it touches the
\* database: [kind, missing, rec], kind being the response it returns there,
\* or "store" when it goes on to save rec.
Outcome(kind, missing, rec) == [kind |-> kind, missing |-> missing, rec |-> rec]

Validate(data) ==
    IF ~Truthy(data) THEN Outcome("no_data", <<>>, NoRec)
    \* 'symbol' not in data: a TypeError for a number or a boolean
    ELSE IF KeyIn("symbol", data) = "raise" THEN Outcome("internal_error", <<>>, NoRec)
    ELSE IF Missing(data) # <<>> THEN Outcome("missing", Missing(data), NoRec)
    \* data['symbol']: a TypeError for a list or a string
    ELSE IF data.t # "obj" THEN Outcome("internal_error", <<>>, NoRec)
    ELSE
        Let(FloatOf(data.v["price"]), LAMBDA price :
        Let(FloatOf(DictGet(data, "strength", PyFloat(850))), LAMBDA strength :
        IF ~price.ok THEN Outcome("bad_price", <<>>, NoRec)
        \* float(data.get('strength', 8.5)) is not guarded
        ELSE IF ~strength.ok THEN Outcome("internal_error", <<>>, NoRec)
        ELSE Outcome("store", <<>>, SignalData(data, price.val, strength.val))))

\* data with each key of d that it lacks set to d's value
WithDefaults(data, d) ==
    IF data.t = "obj" THEN PyDict(data.v @@ d) ELSE data

\* Prepare as the lenient variant would have it: a missing required field is
\* filled with a placeholder and the record is stored
PrepareLenient(r, swallow) ==
    Let(Extract(r), LAMBDA e :
        IF e.exc = "bad_request" \/ (e.exc = "value_error" /\ ~swallow)
        THEN Outcome("internal_error", <<>>, NoRec)
        ELSE IF ~Truthy(e.data) THEN Validate(e.data)
        ELSE Validate(WithDefaults(e.data,
                [symbol |-> PyStr("UNKNOWN"), signal |-> PyStr("UNKNOWN"), price |-> PyInt(0)])))

\* Prepare with an unparsable price stored as 0 instead of refused
PreparePriceZero(r, swallow) ==
    Let(Extract(r), LAMBDA e :
        IF e.exc = "bad_request" \/ (e.exc = "value_error" /\ ~swallow)
        THEN Outcome("internal_error", <<>>, NoRec)
        ELSE IF e.data.t = "obj" /\ "price" \in DOMAIN e.data.v
                /\ ~FloatOf(e.data.v["price"]).ok
        THEN Validate(PyDict([e.data.v EXCEPT !["price"] = PyInt(0)]))
        ELSE Validate(e.data))

\* Prepare with ticker taken for a missing symbol
PrepareTickerAlias(r, swallow) ==
    Let(Extract(r), LAMBDA e :
        IF e.exc = "bad_request" \/ (e.exc = "value_error" /\ ~swallow)
        THEN Outcome("internal_error", <<>>, NoRec)
        ELSE IF e.data.t = "obj" /\ "ticker" \in DOMAIN e.data.v
        THEN Validate(WithDefaults(e.data, [symbol |-> e.data.v["ticker"]]))
        ELSE Validate(e.data))

\* The try opened before request.get_data in the raw branch has no handler of
\* its own in the source.  An exception in it either propagates to the
\* handler's outer except (swallow = FALSE) or is dropped there with data as
\* assigned so far (swallow = TRUE): both readings are kept.
Prepare(r, swallow) ==
    Let(Extract(r), LAMBDA e :
        IF e.exc = "bad_request" \/ (e.exc = "value_error" /\ ~swallow)
        THEN Outcome("internal_error", <<>>, NoRec)
        ELSE Validate(e.data))

(***************************************************************************)
(* The table trading_signals (init_database)                               *)
(***************************************************************************)
SymbolLen == 20
SignalLen == 10
TimeframeLen == 10
PricePrecision == 15
PriceScale == 5
StrengthPrecision == 3
StrengthScale == 1

Abs(n) == IF n < 0 THEN -n ELSE n

\* the number of decimal digits of a natural number (0 has none)
RECURSIVE NumDigits(_)
NumDigits(n) == IF n = 0 THEN 0 ELSE 1 + NumDigits(n \div 10)

\* Whether PostgreSQL accepts the row: the VARCHAR lengths (a longer value is an
\* error, not a truncation) and the DECIMAL ranges (after rounding to the
\* column's scale).  A timeframe is a string or NULL in the inputs of the model.
DbAccepts(rec) ==
    /\ Len(rec.symbol) <= SymbolLen
    /\ Len(rec.signal) <= SignalLen
    /\ NumDigits(Abs(rec.price) \div FScale) <= PricePrecision - PriceScale
    /\ (Abs(rec.strength) * Pow10(StrengthScale) + (FScale \div 2)) \div FScale
            < Pow10(StrengthPrecision)
    /\ CASE rec.timeframe.t = "str" -> Len(rec.timeframe.v) <= TimeframeLen
         [] rec.timeframe.t = "null" -> TRUE

\* the row INSERT ... RETURNING id makes of signal_data
Row(id, rec) ==
    [id |-> id, symbol |-> rec.symbol, signal |-> rec.signal, price |-> rec.price,
     strength |-> rec.strength, timeframe |-> rec.timeframe,
     status |-> "active", processed |-> FALSE, raw_data |-> rec.raw_data]

(***************************************************************************)
(* The requests the model sends                                            *)
(***************************************************************************)
JsonRequests ==
    [j_example |-> JsonReq("{\"symbol\":\"btcusdt\",\"signal\":\"long\",\"price\":\"50000.5\"}"),
     j_padded |-> JsonReq("{\"symbol\": \" ethusdt \", \"signal\": \" short\", \"price\": 2800}"),
     j_full |-> JsonReq("{\"symbol\":\"sol\",\"signal\":\"long\",\"price\":100.25,\"strength\":\"9.5\",\"timeframe\":\"1h\"}"),
     j_quote |-> JsonReq("{\"symbol\":\"b\\\"tc\",\"signal\":\"long\",\"price\":1}"),
     j_longsym |-> JsonReq("{\"symbol\":\"binance:1000shibusdt.p\",\"signal\":\"long\",\"price\":1}"),
     j_longsig |-> JsonReq("{\"symbol\":\"btc\",\"signal\":\"strong_long\",\"price\":1}"),
     j_invalid |-> JsonReq("{\"symbol\":\"btc\","),
     j_emptybody |-> JsonReq(""),
     j_emptyobj |-> JsonReq("{}"),
     j_null |-> JsonReq("null"),
     j_ticker |-> JsonReq("{\"ticker\":\" btc \",\"signal\":\"long\",\"price\":1}"),
     j_action |-> JsonReq("{\"symbol\":\"btc\",\"action\":\"buy\",\"price\":1}"),
     j_noprice |-> JsonReq("{\"symbol\":\"btc\",\"signal\":\"long\"}"),
     j_badprice |-> JsonReq("{\"symbol\":\"btc\",\"signal\":\"long\",\"price\":\"abc\"}"),
     j_zeroprice |-> JsonReq("{\"symbol\":\"btc\",\"signal\":\"long\",\"price\":0}"),
     j_emptysym |-> JsonReq("{\"symbol\":\"\",\"signal\":\"long\",\"price\":1}"),
     j_nullsym |-> JsonReq("{\"symbol\":null,\"signal\":\"long\",\"price\":1}"),
     j_blanksig |-> JsonReq("{\"symbol\":\"btc\",\"signal\":\"  \",\"price\":1}"),
     j_badstrength |-> JsonReq("{\"symbol\":\"btc\",\"signal\":\"long\",\"price\":1,\"strength\":\"high\"}"),
     j_bigstrength |-> JsonReq("{\"symbol\":\"btc\",\"signal\":\"long\",\"price\":1,\"strength\":150}"),
     j_list |-> JsonReq("[\"symbol\",\"signal\",\"price\"]"),
     j_number |-> JsonReq("5")]

FormRequests ==
    [f_full |-> FormReq([symbol |-> "btc", signal |-> "long", price |-> "100"]),
     f_opts |-> FormReq([symbol |-> "eth", signal |-> "short", price |-> "2800.5",
                         strength |-> "7", timeframe |-> "15m"]),
     f_priceonly |-> FormReq([price |-> "1"]),
     f_badprice |-> FormReq([symbol |-> "eth", signal |-> "short", price |-> "abc"]),
     f_other |-> FormReq([note |-> "x"]),
     f_empty |-> FormReq(NoForm)]

RawRequests ==
    [r_empty |-> RawReq(""),
     r_kv |-> RawReq("symbol=ETH&signal=SHORT&price=2800"),
     r_json |-> RawReq("{\"symbol\":\"btc\",\"signal\":\"long\",\"price\":1}"),
     r_double |-> RawReq("\"{\\\"symbol\\\":\\\"btc\\\",\\\"signal\\\":\\\"long\\\",\\\"price\\\":1}\""),
     r_wrapped |-> RawReq("\"{\"symbol\":\"btc\",\"signal\":\"long\",\"price\":1}\""),
     r_embedded |-> RawReq("alert {\"symbol\":\"btc\",\"signal\":\"long\",\"price\":1} end"),
     r_brace_kv |-> RawReq("symbol=xrp {\"symbol\":\"btc\",\"signal\":\"long\",\"price\":1}"),
     r_partial_brace |-> RawReq("{\"symbol\":\"btc\"} signal=long&price=1"),
     r_emptybrace_kv |-> RawReq("{} symbol=btc&signal=long&price=5"),
     r_badbrace_kv |-> RawReq("{oops} symbol=btc&signal=long&price=5"),
     r_baddots |-> RawReq("symbol=btc&signal=long&price=1.2.3"),
     r_dotprice |-> RawReq("price=."),
     r_text |-> RawReq("hello world"),
     r_number |-> RawReq("5"),
     r_zero |-> RawReq("0"),
     r_quoted_fields |-> RawReq("\"symbol\": \"btc\", \"signal\": \"long\", \"price\": 12.5"),
     r_ticker |-> RawReq("ticker=btc&signal=long&price=1"),
     r_words |-> RawReq("\"symbol signal price\"")]

Requests == JsonRequests @@ FormRequests @@ RawRequests
RequestNames == DOMAIN Requests

\* the extraction and the outcome of every request, computed once
Extracts == [n \in RequestNames |-> Extract(Requests[n])]
Prepared == [n \in RequestNames |-> [sw \in BOOLEAN |-> Prepare(Requests[n], sw)]]

(***************************************************************************)
(* Responses                                                               *)
(***************************************************************************)
StatusCode(kind) ==
    CASE kind \in {"info", "success", "db_unavailable", "healthy", "unhealthy"} -> 200
      [] kind \in {"no_data", "missing", "bad_price"} -> 400
      [] kind \in {"db_error", "internal_error"} -> 500

StatusText(kind) ==
    CASE kind = "info" -> "info"
      [] kind = "success" -> "success"
      [] kind = "db_unavailable" -> "warning"
      [] kind \in {"healthy", "unhealthy"} -> kind
      [] OTHER -> "error"

\* a response: its kind, the HTTP code, the "status" of its body, the signal_id
\* and the missing fields its message names
NoResp == [kind |-> "none", code |-> 0, status |-> "", id |-> 0, missing |-> <<>>]
Resp(kind, id, missing) ==
    [kind |-> kind, code |-> StatusCode(kind), status |-> StatusText(kind), id |-> id,
     missing |-> missing]

(***************************************************************************)
(* State                                                                   *)
(***************************************************************************)
\* the requests served in one run of the model
MaxRequests == 2

Workers == {"w1", "w2"}

\* the workers that take requests under Spec: one, serving a request at a time
Serial == {"w1"}

NoWork == [exc |-> "none", data |-> PyNone, src |-> "idle"]
NoRow == [none |-> TRUE]

VARIABLES
    pc,         \* where each worker is in webhook()
    cur,        \* the name of the request a worker serves ("" when idle)
    work,       \* the extraction's result for it
    rec,        \* signal_data, once built
    resp,       \* the response returned
    conn,       \* the connection of the request: "none", "open", "closed"
    tx,         \* the row inserted in the open transaction
    rid,        \* the id the INSERT returned (0: none)
    inserts,    \* the INSERT statements the request has executed
    db,         \* the committed rows of trading_signals, in commit order
    nextId,     \* the next value of the SERIAL sequence
    served,     \* the requests received so far
    fault,      \* whether the database or the connection failed under the request
    failed,     \* whether the request's INSERT or commit raised
    failedIds,  \* the ids returned to requests that then answered 500
    opened,     \* the connections obtained for requests that are open
    sent,       \* the responses returned so far
    refused,    \* the requests answered without a connection so far
    boot        \* init_database(), which runs when the module is loaded: "no" (not
                \* yet run), "clean" (run, no connection left open), "leaked"

vars == <<pc, cur, work, rec, resp, conn, tx, rid, inserts, db, nextId, served,
          fault, failed, failedIds, opened, sent, refused, boot>>

Init ==
    /\ pc = [w \in Workers |-> "idle"]
    /\ cur = [w \in Workers |-> ""]
    /\ work = [w \in Workers |-> NoWork]
    /\ rec = [w \in Workers |-> NoRec]
    /\ resp = [w \in Workers |-> NoResp]
    /\ conn = [w \in Workers |-> "none"]
    /\ tx = [w \in Workers |-> NoRow]
    /\ rid = [w \in Workers |-> 0]
    /\ inserts = [w \in Workers |-> 0]
    /\ db = <<>>
    /\ nextId = 1
    /\ served = 0
    /\ fault = [w \in Workers |-> FALSE]
    /\ failed = [w \in Workers |-> FALSE]
    /\ failedIds = {}
    /\ opened = 0
    /\ sent = 0
    /\ refused = 0
    /\ boot = "clean"

\* return jsonify(...), code
Answer(w, kind, id, missing) ==
    /\ resp' = [resp EXCEPT ![w] = Resp(kind, id, missing)]
    /\ pc' = [pc EXCEPT ![w] = "done"]
    /\ failedIds' = IF StatusCode(kind) = 500 /\ rid[w] # 0
                    THEN failedIds \cup {rid[w]} ELSE failedIds
    /\ sent' = sent + 1
    /\ refused' = IF kind = "db_unavailable" THEN refused + 1 ELSE refused

(***************************************************************************)
(* webhook(): one action per stretch of the handler between two calls to   *)
(* the database                                                            *)
(***************************************************************************)
\* GET: the usage note
WebhookGet(w) ==
    /\ pc[w] = "idle"
    /\ boot # "no"
    /\ served < MaxRequests
    /\ served' = served + 1
    /\ cur' = [cur EXCEPT ![w] = "GET"]
    /\ Answer(w, "info", 0, <<>>)
    /\ UNCHANGED <<work, rec, conn, tx, rid, inserts, db, nextId, fault, failed,
                   opened, boot>>

\* POST: from the entry to the response, or to get_db_connection()
WebhookPost(w, n, swallow) ==
    LET out == Prepared[n][swallow] IN
    /\ pc[w] = "idle"
    /\ boot # "no"
    /\ served < MaxRequests
    /\ served' = served + 1
    /\ cur' = [cur EXCEPT ![w] = n]
    /\ work' = [work EXCEPT ![w] = Extracts[n]]
    /\ IF out.kind = "store"
       THEN /\ rec' = [rec EXCEPT ![w] = out.rec]
            /\ pc' = [pc EXCEPT ![w] = "connect"]
            /\ UNCHANGED <<resp, failedIds, sent, refused>>
       ELSE /\ Answer(w, out.kind, 0, out.missing)
            /\ UNCHANGED rec
    /\ UNCHANGED <<conn, tx, rid, inserts, db, nextId, fault, failed,
                   opened, boot>>

\* get_db_connection() returns a connection
ConnectOk(w) ==
    /\ pc[w] = "connect"
    /\ conn' = [conn EXCEPT ![w] = "open"]
    /\ pc' = [pc EXCEPT ![w] = "execute"]
    /\ opened' = opened + 1
    /\ UNCHANGED <<cur, work, rec, resp, tx, rid, inserts, db, nextId, served,
                   fault, failed, failedIds,
                   sent, refused, boot>>

\* get_db_connection() returns None: the "warning" response
ConnectFail(w) ==
    /\ pc[w] = "connect"
    /\ fault' = [fault EXCEPT ![w] = TRUE]
    /\ Answer(w, "db_unavailable", 0, <<>>)
    /\ UNCHANGED <<cur, work, rec, conn, tx, rid, inserts, db, nextId, served, failed,
                   opened, boot>>

\* ExecuteOk on a connection in autocommit mode: the row is committed at once
ExecuteOkAutocommit(w) ==
    /\ pc[w] = "execute"
    /\ DbAccepts(rec[w])
    /\ tx' = [tx EXCEPT ![w] = Row(nextId, rec[w])]
    /\ db' = Append(db, Row(nextId, rec[w]))
    /\ rid' = [rid EXCEPT ![w] = nextId]
    /\ nextId' = nextId + 1
    /\ inserts' = [inserts EXCEPT ![w] = @ + 1]
    /\ pc' = [pc EXCEPT ![w] = "commit"]
    /\ UNCHANGED <<cur, work, rec, resp, conn, served, fault, failed, failedIds,
                   opened, sent, refused, boot>>

\* the rows, committed or in another request's transaction, that carry the
\* symbol, signal and price of r
SameSignal(w, r) ==
    {db[i] : i \in {j \in DOMAIN db : /\ db[j].symbol = r.symbol
                                      /\ db[j].signal = r.signal
                                      /\ db[j].price = r.price}}
    \cup {tx[v] : v \in {u \in Workers \ {w} : /\ tx[u] # NoRow
                                                /\ tx[u].symbol = r.symbol
                                                /\ tx[u].signal = r.signal
                                                /\ tx[u].price = r.price}}

\* ExecuteOk with the signal deduplicated: when a row with the same symbol,
\* signal and price exists, no row is added and the id returned is that row's
ExecuteOkDedup(w) ==
    /\ pc[w] = "execute"
    /\ DbAccepts(rec[w])
    /\ LET same == SameSignal(w, rec[w])
           row == IF same = {} THEN Row(nextId, rec[w]) ELSE CHOOSE r \in same : TRUE
       IN  /\ tx' = [tx EXCEPT ![w] = row]
           /\ rid' = [rid EXCEPT ![w] = row.id]
           /\ nextId' = IF same = {} THEN nextId + 1 ELSE nextId
    /\ inserts' = [inserts EXCEPT ![w] = @ + 1]
    /\ pc' = [pc EXCEPT ![w] = "commit"]
    /\ UNCHANGED <<cur, work, rec, resp, conn, db, served, fault, failed, failedIds,
                   opened, sent, refused, boot>>

\* cur.execute(INSERT ... RETURNING id, timestamp) and cur.fetchone()
ExecuteOk(w) ==
    /\ pc[w] = "execute"
    /\ DbAccepts(rec[w])
    /\ tx' = [tx EXCEPT ![w] = Row(nextId, rec[w])]
    /\ rid' = [rid EXCEPT ![w] = nextId]
    /\ nextId' = nextId + 1
    /\ inserts' = [inserts EXCEPT ![w] = @ + 1]
    /\ pc' = [pc EXCEPT ![w] = "commit"]
    /\ UNCHANGED <<cur, work, rec, resp, conn, db, served, fault, failed, failedIds,
                   opened, sent, refused, boot>>

\* cur.execute raises because the row breaks a constraint of its columns
ExecuteReject(w) ==
    /\ pc[w] = "execute"
    /\ ~DbAccepts(rec[w])
    /\ inserts' = [inserts EXCEPT ![w] = @ + 1]
    /\ failed' = [failed EXCEPT ![w] = TRUE]
    /\ pc' = [pc EXCEPT ![w] = "rollback"]
    /\ UNCHANGED <<cur, work, rec, resp, conn, tx, rid, db, nextId, served, fault, failedIds,
                   opened, sent, refused, boot>>

\* cur.execute raises because the server or the connection fails
ExecuteFault(w) ==
    /\ pc[w] = "execute"
    /\ inserts' = [inserts EXCEPT ![w] = @ + 1]
    /\ fault' = [fault EXCEPT ![w] = TRUE]
    /\ failed' = [failed EXCEPT ![w] = TRUE]
    /\ pc' = [pc EXCEPT ![w] = "rollback"]
    /\ UNCHANGED <<cur, work, rec, resp, conn, tx, rid, db, nextId, served, failedIds,
                   opened, sent, refused, boot>>

\* conn.commit()
CommitOk(w) ==
    /\ pc[w] = "commit"
    /\ db' = Append(db, tx[w])
    /\ pc' = [pc EXCEPT ![w] = "close"]
    /\ UNCHANGED <<cur, work, rec, resp, conn, tx, rid, inserts, nextId, served,
                   fault, failed, failedIds,
                   opened, sent, refused, boot>>

\* conn.commit() raises: the transaction is not committed
CommitFail(w) ==
    /\ pc[w] = "commit"
    /\ fault' = [fault EXCEPT ![w] = TRUE]
    /\ failed' = [failed EXCEPT ![w] = TRUE]
    /\ pc' = [pc EXCEPT ![w] = "rollback"]
    /\ UNCHANGED <<cur, work, rec, resp, conn, tx, rid, inserts, db, nextId, served, failedIds,
                   opened, sent, refused, boot>>

\* cur.close(); conn.close(); the "success" response
Close(w) ==
    /\ pc[w] = "close"
    /\ conn' = [conn EXCEPT ![w] = "closed"]
    /\ Answer(w, "success", rid[w], <<>>)
    /\ opened' = opened - 1
    /\ UNCHANGED <<cur, work, rec, tx, rid, inserts, db, nextId, served, fault, failed,
                   boot>>

\* except: conn.rollback(); conn.close(); the "Database error" response
RollbackOk(w) ==
    /\ pc[w] = "rollback"
    /\ tx' = [tx EXCEPT ![w] = NoRow]
    /\ conn' = [conn EXCEPT ![w] = "closed"]
    /\ Answer(w, "db_error", 0, <<>>)
    /\ opened' = opened - 1
    /\ UNCHANGED <<cur, work, rec, rid, inserts, db, nextId, served, fault, failed,
                   boot>>

\* RollbackFail in a handler without the outer try: the exception of
\* conn.rollback() leaves webhook() and no response is built
RollbackFailEscapes(w, gc) ==
    /\ pc[w] = "rollback"
    /\ tx' = [tx EXCEPT ![w] = NoRow]
    /\ fault' = [fault EXCEPT ![w] = TRUE]
    /\ conn' = [conn EXCEPT ![w] = IF gc THEN "closed" ELSE "open"]
    /\ opened' = IF gc THEN opened - 1 ELSE opened
    /\ pc' = [pc EXCEPT ![w] = "done"]
    /\ UNCHANGED <<cur, work, rec, resp, rid, inserts, db, nextId, served, failed,
                   failedIds, sent, refused, boot>>

\* conn.rollback() raises (the connection is gone, and the server has dropped
\* the transaction): the outer except answers, conn.close() is not reached.
\* The connection object is left to the garbage collector, which closes it
\* when it finalises it: at once (gc) or not before the request is over.
RollbackFail(w, gc) ==
    /\ pc[w] = "rollback"
    /\ tx' = [tx EXCEPT ![w] = NoRow]
    /\ fault' = [fault EXCEPT ![w] = TRUE]
    /\ conn' = [conn EXCEPT ![w] = IF gc THEN "closed" ELSE "open"]
    /\ opened' = IF gc THEN opened - 1 ELSE opened
    /\ Answer(w, "internal_error", 0, <<>>)
    /\ UNCHANGED <<cur, work, rec, rid, inserts, db, nextId, served, failed, boot>>

\* the response is sent; the worker takes the next request
Return(w) ==
    /\ pc[w] = "done"
    /\ pc' = [pc EXCEPT ![w] = "idle"]
    /\ cur' = [cur EXCEPT ![w] = ""]
    /\ work' = [work EXCEPT ![w] = NoWork]
    /\ rec' = [rec EXCEPT ![w] = NoRec]
    /\ resp' = [resp EXCEPT ![w] = NoResp]
    /\ conn' = [conn EXCEPT ![w] = "none"]
    /\ tx' = [tx EXCEPT ![w] = NoRow]
    /\ rid' = [rid EXCEPT ![w] = 0]
    /\ inserts' = [inserts EXCEPT ![w] = 0]
    /\ fault' = [fault EXCEPT ![w] = FALSE]
    /\ failed' = [failed EXCEPT ![w] = FALSE]
    /\ UNCHANGED <<db, nextId, served, failedIds,
                   opened, sent, refused, boot>>

\* health(): get_db_connection() is called for its truth value only.  When it
\* returns a connection (up), nothing closes it; the connection object is
\* dropped and the garbage collector closes it when it finalises it: at once
\* (gc) or not before the request is over.
Health(w, up, gc) ==
    /\ pc[w] = "idle"
    /\ boot # "no"
    /\ served < MaxRequests
    /\ served' = served + 1
    /\ cur' = [cur EXCEPT ![w] = "HEALTH"]
    /\ opened' = IF up /\ ~gc THEN opened + 1 ELSE opened
    /\ Answer(w, IF up THEN "healthy" ELSE "unhealthy", 0, <<>>)
    /\ UNCHANGED <<work, rec, conn, tx, rid, inserts, db, nextId, fault, failed, boot>>

\* init_database(), called once when the module is loaded: no connection
\* ("no_conn"), the tables created and the connection closed ("ok"), or an
\* exception after the connection was made ("error"), where the except clause
\* returns without closing it and the garbage collector closes it at once (gc)
\* or not
InitDatabase(out, gc) ==
    /\ boot = "no"
    /\ boot' = IF out = "error" /\ ~gc THEN "leaked" ELSE "clean"
    /\ UNCHANGED <<pc, cur, work, rec, resp, conn, tx, rid, inserts, db, nextId, served,
                   fault, failed, failedIds, opened, sent, refused>>

Next ==
    \/ \E w \in Serial : WebhookGet(w)
    \/ \E w \in Serial, n \in RequestNames, sw \in BOOLEAN : WebhookPost(w, n, sw)
    \/ \E w \in Serial : ConnectOk(w)
    \/ \E w \in Serial : ConnectFail(w)
    \/ \E w \in Serial : ExecuteOk(w)
    \/ \E w \in Serial : ExecuteReject(w)
    \/ \E w \in Serial : ExecuteFault(w)
    \/ \E w \in Serial : CommitOk(w)
    \/ \E w \in Serial : CommitFail(w)
    \/ \E w \in Serial : Close(w)
    \/ \E w \in Serial : RollbackOk(w)
    \/ \E w \in Serial, gc \in BOOLEAN : RollbackFail(w, gc)
    \/ \E w \in Serial : Return(w)

Spec == Init /\ [][Next]_vars

\* The steps webhook() takes by itself once a request has arrived: each is
\* straight-line code around one call to the database
Step(w) ==
    \/ ConnectOk(w) \/ ConnectFail(w)
    \/ ExecuteOk(w) \/ ExecuteReject(w) \/ ExecuteFault(w)
    \/ CommitOk(w) \/ CommitFail(w)
    \/ Close(w) \/ RollbackOk(w)
    \/ \E gc \in BOOLEAN : RollbackFail(w, gc)
    \/ Return(w)

\* Spec with every call to the database returning or raising in the end
LiveSpec == Spec /\ \A w \in Serial : WF_vars(Step(w))

\* The requests sent when two requests are served at a time: two signals that are
\* stored, one the table refuses, one the handler refuses
ConcRequests == {"j_example", "r_kv", "j_longsym", "j_noprice"}

\* Two workers, each serving a request of its own, their steps interleaved
ConcNext ==
    \/ \E w \in Workers, n \in ConcRequests, sw \in BOOLEAN : WebhookPost(w, n, sw)
    \/ \E w \in Workers : ConnectOk(w)
    \/ \E w \in Workers : ConnectFail(w)
    \/ \E w \in Workers : ExecuteOk(w)
    \/ \E w \in Workers : ExecuteReject(w)
    \/ \E w \in Workers : ExecuteFault(w)
    \/ \E w \in Workers : CommitOk(w)
    \/ \E w \in Workers : CommitFail(w)
    \/ \E w \in Workers : Close(w)
    \/ \E w \in Workers : RollbackOk(w)
    \/ \E w \in Workers, gc \in BOOLEAN : RollbackFail(w, gc)
    \/ \E w \in Workers : Return(w)

ConcSpec == Init /\ [][ConcNext]_vars

\* The process from the moment the module is loaded, with the health probe
InitBoot ==
    /\ pc = [w \in Workers |-> "idle"]
    /\ cur = [w \in Workers |-> ""]
    /\ work = [w \in Workers |-> NoWork]
    /\ rec = [w \in Workers |-> NoRec]
    /\ resp = [w \in Workers |-> NoResp]
    /\ conn = [w \in Workers |-> "none"]
    /\ tx = [w \in Workers |-> NoRow]
    /\ rid = [w \in Workers |-> 0]
    /\ inserts = [w \in Workers |-> 0]
    /\ db = <<>>
    /\ nextId = 1
    /\ served = 0
    /\ fault = [w \in Workers |-> FALSE]
    /\ failed = [w \in Workers |-> FALSE]
    /\ failedIds = {}
    /\ opened = 0
    /\ sent = 0
    /\ refused = 0
    /\ boot = "no"

HandleNext ==
    \/ \E out \in {"no_conn", "ok", "error"}, gc \in BOOLEAN : InitDatabase(out, gc)
    \/ \E w \in Serial, up \in BOOLEAN, gc \in BOOLEAN : Health(w, up, gc)
    \/ Next

HandleSpec == InitBoot /\ [][HandleNext]_vars

(***************************************************************************)
(* Properties                                                              *)
(***************************************************************************)
\* worker w serves a POST of the catalogue
Serving(w) == cur[w] \in RequestNames

\* w has returned the response of a POST
Answered(w) == Serving(w) /\ pc[w] = "done"

\* the committed rows whose id is id
RowsOf(id) == {i \in DOMAIN db : db[i].id = id}

\* the first result of chain that is not empty, or the empty mapping
FirstNonEmpty(chain) ==
    LET hits == {i \in DOMAIN chain : Truthy(chain[i].data)}
    IN  IF hits = {} THEN Extracted(EmptyDict, "none")
        ELSE chain[CHOOSE i \in hits : \A j \in hits : i <= j]

\* for each request, what the strategies of a body that names no format give
\* when each is run alone and the first non-empty result is taken
ChainResult ==
    [n \in RequestNames |->
        FirstNonEmpty(<<WholeStrategy(Requests[n].body),
                        BraceStrategy(Requests[n].body),
                        RegexStrategy(Requests[n].body)>>)]

\* for each request, the fields the regular expressions alone find in the body
RegexAlone == [n \in RequestNames |-> RegexStrategy(Requests[n].body).data]

\* for each request, json.loads of the body
BodyJson == [n \in RequestNames |-> JsonLoads(Requests[n].body)]

WellFormedSignal(v) ==
    /\ v.t = "obj"
    /\ DOMAIN v.v = {"symbol", "signal", "price"}
    /\ v.v["symbol"].t = "str"
    /\ v.v["signal"].t = "str"
    /\ v.v["price"].t \in {"int", "float"}

\* C2: a well-formed JSON signal (symbol, signal, numeric price) is committed
\* with symbol and signal upper-cased and trimmed, the price as given, strength
\* 8.5 and timeframe "5m", and answered with Success, unless storage failed.
WellFormedJsonStored ==
    \A w \in Workers :
        (/\ Answered(w)
         /\ Requests[cur[w]].ctype = "json"
         /\ BodyJson[cur[w]].ok
         /\ WellFormedSignal(BodyJson[cur[w]].val)
         /\ ~fault[w])
        => LET v == BodyJson[cur[w]].val.v
           IN  /\ resp[w].kind = "success"
               /\ \E i \in RowsOf(resp[w].id) :
                    /\ db[i].symbol = Strip(Upper(v["symbol"].v))
                    /\ db[i].signal = Strip(Upper(v["signal"].v))
                    /\ db[i].price = FloatOf(v["price"]).val
                    /\ db[i].strength = 850
                    /\ db[i].timeframe = PyStr("5m")

\* C3: extraction never raises: whatever the body, no exception leaves the
\* strategies, a failed strategy only hands over to the next, and the handler
\* never answers an internal error because of the extraction.
ExtractionNeverRaises ==
    \A w \in Workers : Serving(w) =>
        /\ work[w].exc = "none"
        /\ (pc[w] = "done" /\ ~Truthy(work[w].data) => resp[w].kind # "internal_error")

\* C4: a request from which nothing can be extracted ends in the "no data"
\* outcome, with no connection obtained and no INSERT executed.
NoDataOutcome ==
    \A w \in Workers :
        (/\ Answered(w)
         /\ DOMAIN Requests[cur[w]].form = {}
         /\ ~(BodyJson[cur[w]].ok /\ Truthy(BodyJson[cur[w]].val))
         /\ ~Truthy(ChainResult[cur[w]].data)
         /\ ~Truthy(RegexAlone[cur[w]]))
        => /\ ~Truthy(work[w].data)
           /\ resp[w].kind = "no_data"
           /\ conn[w] = "none"
           /\ inserts[w] = 0

\* the extraction of w's request ended normally in a non-empty mapping
ExtractedMapping(w) ==
    /\ Answered(w)
    /\ work[w].exc = "none"
    /\ work[w].data.t = "obj"
    /\ Truthy(work[w].data)

\* the required fields the mapping of w lacks
Lacking(w) == {k \in {"symbol", "signal", "price"} : k \notin DOMAIN work[w].data.v}

\* C5 as the code has it: a non-empty mapping that lacks a required field is
\* refused with 400 and the list of the fields it lacks, in the order symbol,
\* signal, price; no record is built, no connection obtained, nothing
\* inserted; and every committed row comes from a mapping with all three.
MissingFieldRejected ==
    /\ \A w \in Workers : ExtractedMapping(w) /\ Lacking(w) # {} =>
        /\ resp[w].kind = "missing"
        /\ resp[w].code = 400
        /\ resp[w].missing = SelectSeq(Required, LAMBDA k : k \in Lacking(w))
        /\ rec[w] = NoRec
        /\ conn[w] = "none"
        /\ inserts[w] = 0
    /\ \A i \in DOMAIN db :
        {"symbol", "signal", "price"} \subseteq DOMAIN db[i].raw_data.v

\* a request with a mapping that lacks a required field has been answered
MissingFieldAnswered ==
    \E w \in Workers :
        ExtractedMapping(w) /\ Lacking(w) # {} /\ resp[w].kind = "missing"

\* C5 as stated: a mapping that lacks a required field is still persisted and
\* the outcome is not a refusal.
MissingFieldPersisted ==
    \A w \in Workers : ExtractedMapping(w) /\ Lacking(w) # {} /\ ~fault[w] =>
        /\ resp[w].status # "error"
        /\ \E i \in DOMAIN db : db[i].raw_data = work[w].data

\* the mapping of w has all required fields and a price float() refuses
UnparsablePrice(w) ==
    /\ ExtractedMapping(w)
    /\ Lacking(w) = {}
    /\ ~FloatOf(work[w].data.v["price"]).ok

TickerOnly(w) ==
    /\ ExtractedMapping(w)
    /\ "ticker" \in DOMAIN work[w].data.v
    /\ "symbol" \notin DOMAIN work[w].data.v

InnerJson(text) ==
    Let(JsonLoads(text), LAMBDA j :
        IF j.ok /\ j.val.t = "str" THEN JsonLoads(j.val.v)
        ELSE IF Len(text) >= 2 /\ Ch(text, 1) \in {"\"", "'"} /\ Ch(text, Len(text)) = Ch(text, 1)
        THEN JsonLoads(Sub(text, 2, Len(text) - 1))
        ELSE ParseFail(1))

InnerOf == [n \in RequestNames |-> InnerJson(Requests[n].body)]

\* C8: a JSON object sent as a string under an extra layer of quotes, with no
\* format declared, gives the mapping of the inner object, and is then handled
\* as that object sent directly.
DoubleEncodedRecovered ==
    \A w \in Workers :
        (/\ Serving(w)
         /\ Requests[cur[w]].ctype = "raw"
         /\ InnerOf[cur[w]].ok
         /\ InnerOf[cur[w]].val.t = "obj")
        => /\ work[w].exc = "none"
           /\ work[w].data = InnerOf[cur[w]].val
           /\ (pc[w] = "done" => resp[w].kind # "internal_error")

\* C9: no committed row has an empty symbol or signal, and a symbol or signal
\* that was missing (None) is stored as UNKNOWN, never as the text of None.
NoEmptyOrNoneText ==
    \A i \in DOMAIN db :
        /\ db[i].symbol # ""
        /\ db[i].signal # ""
        /\ \A k \in {"symbol", "signal"} :
            (db[i].raw_data.t = "obj" /\ DictGet(db[i].raw_data, k, PyNone) = PyNone)
                => db[i][k] = "UNKNOWN"

\* C10: a request executes at most one INSERT; the row is in the table only
\* once the commit has succeeded and then exactly once, as built; when the
\* INSERT or the commit raises, the transaction is rolled back, no row of the
\* request is in the table then or later, and the response is the 500 error;
\* the INSERT is not tried again.
SingleAtomicInsert ==
    /\ \A w \in Workers :
        /\ inserts[w] <= 1
        /\ (failed[w] => inserts[w] <= 1 /\ pc[w] \in {"rollback", "done"})
        /\ (failed[w] /\ pc[w] = "done" =>
                /\ resp[w].code = 500
                /\ resp[w].status = "error"
                /\ tx[w] = NoRow
                /\ (rid[w] # 0 => RowsOf(rid[w]) = {}))
        /\ (pc[w] = "commit" => tx[w] # NoRow /\ RowsOf(tx[w].id) = {})
        /\ (pc[w] = "done" /\ resp[w].kind = "success" =>
                /\ ~failed[w]
                /\ inserts[w] = 1
                /\ Cardinality(RowsOf(resp[w].id)) = 1
                /\ \A i \in RowsOf(resp[w].id) : db[i] = Row(resp[w].id, rec[w]))
    /\ \A i \in DOMAIN db : db[i].id \notin failedIds
    /\ \A i, j \in DOMAIN db : db[i].id = db[j].id => i = j

\* a request whose INSERT returned an id and whose commit then failed has
\* been answered, after another request's row was committed
FailedAfterInsert ==
    \E w \in Workers :
        /\ pc[w] = "done"
        /\ failed[w]
        /\ rid[w] # 0
        /\ resp[w].code = 500
        /\ db # <<>>

\* the handler built a record for the request of w and went on to store it
Storable(w) == Serving(w) /\ rec[w] # NoRec

\* C11: a request for which no connection can be had is answered with a
\* failure, not a success, and executes no INSERT; the failure stays with that
\* request: a later request that is fit to store and meets no failure of the
\* database is committed and answered with Success.
UnavailableReportsFailure ==
    \A w \in Workers :
        /\ (Answered(w) /\ Storable(w) /\ conn[w] = "none") =>
                /\ resp[w].status = "error"
                /\ resp[w].code >= 400
                /\ inserts[w] = 0
                /\ tx[w] = NoRow
                /\ rid[w] = 0
        /\ (Answered(w) /\ Storable(w) /\ refused > 0 /\ ~fault[w]) =>
                /\ resp[w].kind = "success"
                /\ Cardinality(RowsOf(resp[w].id)) = 1

\* C12: every connection obtained while a request is served is closed before
\* the request is over, on every path, the health probe included; when no
\* request is being served no connection of a request is open; and a request
\* starts with no connection of an earlier one.
HandlesReleased ==
    /\ \A w \in Workers : pc[w] = "done" => conn[w] # "open"
    /\ (\A w \in Workers : pc[w] \in {"idle", "done"}) => opened = 0
    /\ \A w \in Workers : pc[w] = "idle" => conn[w] = "none"

\* the responses webhook() builds
WebhookKinds ==
    {"info", "success", "db_unavailable", "no_data", "missing", "bad_price",
     "db_error", "internal_error"}

\* the requests that have arrived and have no response yet
InFlight == {w \in Workers : pc[w] \notin {"idle", "done"}}

\* each request has one response when it is over and none before
OneResponseEach ==
    /\ \A w \in Workers :
        /\ pc[w] \in {"idle", "connect", "execute", "commit", "close", "rollback", "done"}
        /\ (pc[w] = "done") <=> (resp[w] # NoResp)
        /\ pc[w] = "done" =>
            /\ resp[w].kind \in WebhookKinds
            /\ resp[w].code \in {200, 400, 500}
            /\ resp[w].status \in {"info", "success", "warning", "error"}
    /\ served = sent + Cardinality(InFlight)

\* C13: every webhook request ends with exactly one structured response:
\* whatever fails in extraction, validation, the coercion of strength, the
\* connection, the INSERT, the commit or the rollback, the handler answers
\* with one of its JSON responses and a status code, once, and every request
\* that has arrived gets there.
EveryRequestAnswered ==
    /\ []OneResponseEach
    /\ \A w \in Serial : (pc[w] # "idle") ~> (pc[w] = "done")

\* a request whose strength is no number has been answered with the 500
\* response of the outer except
BadStrengthAnswered ==
    \E w \in Workers :
        /\ ExtractedMapping(w)
        /\ Lacking(w) = {}
        /\ FloatOf(work[w].data.v["price"]).ok
        /\ "strength" \in DOMAIN work[w].data.v
        /\ ~FloatOf(work[w].data.v["strength"]).ok
        /\ resp[w].kind = "internal_error"
        /\ resp[w].code = 500

\* C14: requests served at the same time are independent.  No step of a
\* request waits for another request: the connection, the INSERT of a record
\* the table accepts, the commit and the close can each be taken whatever the
\* other request is doing.  Nothing is deduplicated: every request fit to
\* store that meets no failure of the database is answered with Success, the
\* id in its response is that of one committed row, its own, and no two rows
\* and no two successful requests share an id.
ConcurrentIndependent ==
    /\ \A w \in Workers :
        /\ pc[w] = "connect" => ENABLED ConnectOk(w)
        /\ (pc[w] = "execute" /\ DbAccepts(rec[w])) => ENABLED ExecuteOk(w)
        /\ pc[w] = "commit" => ENABLED CommitOk(w)
        /\ pc[w] = "close" => ENABLED Close(w)
        /\ (Answered(w) /\ Storable(w) /\ ~fault[w] /\ DbAccepts(rec[w])) =>
                resp[w].kind = "success"
        /\ (pc[w] = "done" /\ resp[w].kind = "success") =>
                /\ resp[w].id = rid[w]
                /\ Cardinality(RowsOf(resp[w].id)) = 1
                /\ \A i \in RowsOf(resp[w].id) : db[i] = Row(resp[w].id, rec[w])
    /\ \A v, w \in Workers :
        (v # w /\ pc[v] = "done" /\ pc[w] = "done"
            /\ resp[v].kind = "success" /\ resp[w].kind = "success")
        => resp[v].id # resp[w].id
    /\ \A i, j \in DOMAIN db : db[i].id = db[j].id => i = j

\* two requests with the same symbol, signal and price, served at the same
\* time, have both been answered with Success, each with its own id; the one
\* that inserted first committed last
BothStoredInterleaved ==
    \E v, w \in Workers :
        /\ v # w
        /\ Answered(v) /\ Answered(w)
        /\ resp[v].kind = "success" /\ resp[w].kind = "success"
        /\ rec[v].symbol = rec[w].symbol
        /\ rec[v].signal = rec[w].signal
        /\ rec[v].price = rec[w].price
        /\ resp[v].id < resp[w].id
        /\ \E i, j \in DOMAIN db : i < j /\ db[i].id = resp[w].id /\ db[j].id = resp[v].id

====
